---- MODULE Spec2Model ----
(***************************************************************************)
(* TLS layer of internal/netxlite (tls.go): the TLS configuration helpers, *)
(* the configurable TLS handshaker, its logging decorator and the TLS      *)
(* dialer.                                                                 *)
(*                                                                         *)
(* A *tls.Config is a record of the fields NewClientConnStdlib recognizes  *)
(* plus three of the fields it does not (GetCertificate, CipherSuites,     *)
(* Renegotiation), kept in the declaration order of crypto/tls.Config. A   *)
(* nil slice and an empty slice are both the empty sequence. A pointer     *)
(* that may be nil is a record [ptr, obj]. An error is a record            *)
(* [kind, failure, operation, wrapped]; kind "nil" is the nil error.       *)
(***************************************************************************)
EXTENDS Integers, Sequences, FiniteSets, TLC

(***************************************************************************)
(* Bounds of the model.                                                    *)
(***************************************************************************)
\* last instant of the wall clock (the clock starts at 1; 0 is time.Time{})
MaxTime == 3

(***************************************************************************)
(* Program constants.                                                      *)
(***************************************************************************)
VersionTLS10 == 769
VersionTLS11 == 770
VersionTLS12 == 771
VersionTLS13 == 772
\* 10 * time.Second, in seconds
DefaultTimeout == 10
\* tls.TLS_AES_128_GCM_SHA256
TLS_AES_128_GCM_SHA256 == 4865
\* the largest uint16
MaxUint16 == 65535

(***************************************************************************)
(* Errors.                                                                 *)
(***************************************************************************)
NilErr == [kind |-> "nil", failure |-> "", operation |-> "", wrapped |-> ""]

\* an error value nobody classified: errors.New / fmt.Errorf
RawErr(msg) == [kind |-> "raw", failure |-> "", operation |-> "", wrapped |-> msg]

ErrIncompatibleStdlibConfig == "incompatible stdlib config"

ErrInvalidTLSVersion == RawErr("invalid TLS version")

TLSHandshakeOperation == "tls_handshake"

\* the failure category of a raw TLS handshake error
ClassifyTLSHandshakeError(err) ==
    CASE err.wrapped = "context canceled" -> "context_canceled"
      [] err.wrapped = "i/o timeout" -> "generic_timeout_error"
      [] err.wrapped = "EOF" -> "eof_error"
      [] OTHER -> "unknown_failure"

\* MaybeNewErrWrapper(classifier, operation, err): nil stays nil, an error
\* becomes the Classified Error that keeps the original error
MaybeNewErrWrapper(operation, err) ==
    IF err.kind = "nil" THEN NilErr
    ELSE [kind |-> "ErrWrapper", failure |-> ClassifyTLSHandshakeError(err),
          operation |-> operation, wrapped |-> err.wrapped]

IsClassified(err) == err.kind = "ErrWrapper"

(***************************************************************************)
(* *tls.Config                                                             *)
(***************************************************************************)
\* &tls.Config{}
EmptyConfig ==
    [GetCertificate |-> "nil", RootCAs |-> "nil", NextProtos |-> <<>>,
     ServerName |-> "", InsecureSkipVerify |-> FALSE, CipherSuites |-> <<>>,
     MinVersion |-> 0, MaxVersion |-> 0,
     DynamicRecordSizingDisabled |-> FALSE, Renegotiation |-> 0]

\* the fields of the struct, in declaration order (reflect's field index)
ConfigFields ==
    <<"GetCertificate", "RootCAs", "NextProtos", "ServerName",
      "InsecureSkipVerify", "CipherSuites", "MinVersion", "MaxVersion",
      "DynamicRecordSizingDisabled", "Renegotiation">>

\* reflect.Value.IsZero of one field
IsZero(config, name) == config[name] = EmptyConfig[name]

\* (*tls.Config).Clone: a distinct object with the same field values
Clone(config) == [name \in DOMAIN config |-> config[name]]

NilConfig == [ptr |-> "nil", obj |-> EmptyConfig]

ConfigPtr(config) == [ptr |-> "set", obj |-> config]

ClonedTLSConfigOrNewEmptyConfig(config) ==
    IF config.ptr # "nil" THEN Clone(config.obj) ELSE EmptyConfig

ConfigureTLSVersionDropsAlias(config, version) ==
    CASE version = "TLSv1.3" ->
           [config |-> [config EXCEPT !.MinVersion = VersionTLS13,
                                      !.MaxVersion = VersionTLS13],
            err |-> NilErr]
      [] version = "TLSv1.2" ->
           [config |-> [config EXCEPT !.MinVersion = VersionTLS12,
                                      !.MaxVersion = VersionTLS12],
            err |-> NilErr]
      [] version = "TLSv1.1" ->
           [config |-> [config EXCEPT !.MinVersion = VersionTLS11,
                                      !.MaxVersion = VersionTLS11],
            err |-> NilErr]
      [] version = "TLSv1.0" ->
           [config |-> [config EXCEPT !.MinVersion = VersionTLS10,
                                      !.MaxVersion = VersionTLS10],
            err |-> NilErr]
      [] version = "" -> [config |-> config, err |-> NilErr]
      [] OTHER -> [config |-> config, err |-> ErrInvalidTLSVersion]

\* ConfigureTLSVersion(config, version): the config after the call and the
\* returned error
ConfigureTLSVersion(config, version) ==
    CASE version = "TLSv1.3" ->
           [config |-> [config EXCEPT !.MinVersion = VersionTLS13,
                                      !.MaxVersion = VersionTLS13],
            err |-> NilErr]
      [] version = "TLSv1.2" ->
           [config |-> [config EXCEPT !.MinVersion = VersionTLS12,
                                      !.MaxVersion = VersionTLS12],
            err |-> NilErr]
      [] version = "TLSv1.1" ->
           [config |-> [config EXCEPT !.MinVersion = VersionTLS11,
                                      !.MaxVersion = VersionTLS11],
            err |-> NilErr]
      [] version \in {"TLSv1.0", "TLSv1"} ->
           [config |-> [config EXCEPT !.MinVersion = VersionTLS10,
                                      !.MaxVersion = VersionTLS10],
            err |-> NilErr]
      [] version = "" -> [config |-> config, err |-> NilErr]
      [] OTHER -> [config |-> config, err |-> ErrInvalidTLSVersion]

(***************************************************************************)
(* TLSVersionString and TLSCipherSuiteString. A string is the sequence of  *)
(* its pieces: a name is one piece, the empty string has none, and the     *)
(* output of fmt.Sprintf("..._UNKNOWN_%d", value) is the prefix followed   *)
(* by the decimal digits of the value.                                     *)
(***************************************************************************)
tlsVersionString ==
    [v \in {VersionTLS10, VersionTLS11, VersionTLS12, VersionTLS13, 0} |->
       CASE v = VersionTLS10 -> <<"TLSv1">>
         [] v = VersionTLS11 -> <<"TLSv1.1">>
         [] v = VersionTLS12 -> <<"TLSv1.2">>
         [] v = VersionTLS13 -> <<"TLSv1.3">>
         [] OTHER -> <<>>]

\* the cipher suites of the table, as value and name
tlsCipherSuiteNames ==
    {<<5, "TLS_RSA_WITH_RC4_128_SHA">>,
     <<10, "TLS_RSA_WITH_3DES_EDE_CBC_SHA">>,
     <<47, "TLS_RSA_WITH_AES_128_CBC_SHA">>,
     <<53, "TLS_RSA_WITH_AES_256_CBC_SHA">>,
     <<60, "TLS_RSA_WITH_AES_128_CBC_SHA256">>,
     <<156, "TLS_RSA_WITH_AES_128_GCM_SHA256">>,
     <<157, "TLS_RSA_WITH_AES_256_GCM_SHA384">>,
     <<49159, "TLS_ECDHE_ECDSA_WITH_RC4_128_SHA">>,
     <<49161, "TLS_ECDHE_ECDSA_WITH_AES_128_CBC_SHA">>,
     <<49162, "TLS_ECDHE_ECDSA_WITH_AES_256_CBC_SHA">>,
     <<49169, "TLS_ECDHE_RSA_WITH_RC4_128_SHA">>,
     <<49170, "TLS_ECDHE_RSA_WITH_3DES_EDE_CBC_SHA">>,
     <<49171, "TLS_ECDHE_RSA_WITH_AES_128_CBC_SHA">>,
     <<49172, "TLS_ECDHE_RSA_WITH_AES_256_CBC_SHA">>,
     <<49187, "TLS_ECDHE_ECDSA_WITH_AES_128_CBC_SHA256">>,
     <<49191, "TLS_ECDHE_RSA_WITH_AES_128_CBC_SHA256">>,
     <<49199, "TLS_ECDHE_RSA_WITH_AES_128_GCM_SHA256">>,
     <<49195, "TLS_ECDHE_ECDSA_WITH_AES_128_GCM_SHA256">>,
     <<49200, "TLS_ECDHE_RSA_WITH_AES_256_GCM_SHA384">>,
     <<49196, "TLS_ECDHE_ECDSA_WITH_AES_256_GCM_SHA384">>,
     <<52392, "TLS_ECDHE_RSA_WITH_CHACHA20_POLY1305">>,
     <<52393, "TLS_ECDHE_ECDSA_WITH_CHACHA20_POLY1305">>,
     <<TLS_AES_128_GCM_SHA256, "TLS_AES_128_GCM_SHA256">>,
     <<4866, "TLS_AES_256_GCM_SHA384">>,
     <<4867, "TLS_CHACHA20_POLY1305_SHA256">>}

tlsCipherSuiteString ==
    [v \in {e[1] : e \in tlsCipherSuiteNames} \cup {0} |->
       IF v = 0 THEN <<>>
       ELSE <<(CHOOSE e \in tlsCipherSuiteNames : e[1] = v)[2]>>]

\* the decimal digits
Digits == <<"0", "1", "2", "3", "4", "5", "6", "7", "8", "9">>

\* the %d verb of fmt.Sprintf for a value that is not negative
RECURSIVE Decimal(_)
Decimal(n) ==
    IF n < 10 THEN <<Digits[n + 1]>>
    ELSE Decimal(n \div 10) \o <<Digits[(n % 10) + 1]>>

TLSVersionStringWithoutZero(value) ==
    IF value \in DOMAIN tlsVersionString \ {0} THEN tlsVersionString[value]
    ELSE <<"TLS_VERSION_UNKNOWN_">> \o Decimal(value)

TLSVersionString(value) ==
    IF value \in DOMAIN tlsVersionString THEN tlsVersionString[value]
    ELSE <<"TLS_VERSION_UNKNOWN_">> \o Decimal(value)

TLSCipherSuiteString(value) ==
    IF value \in DOMAIN tlsCipherSuiteString THEN tlsCipherSuiteString[value]
    ELSE <<"TLS_CIPHER_SUITE_UNKNOWN_">> \o Decimal(value)

(***************************************************************************)
(* NewClientConnStdlib                                                     *)
(***************************************************************************)
supportedFields ==
    {"DynamicRecordSizingDisabled", "InsecureSkipVerify", "MaxVersion",
     "MinVersion", "NextProtos", "RootCAs", "ServerName"}

\* a TLSConn that may be nil: the connection it wraps and its config
NilTLSConn == [ptr |-> "nil", conn |-> "", config |-> EmptyConfig]

\* tls.Client(conn, config)
Client(conn, config) == [ptr |-> "set", conn |-> conn, config |-> config]

\* fmt.Errorf("%w: field %s is nonzero", ErrIncompatibleStdlibConfig, name):
\* errors.Is finds the sentinel in wrapped, failure names the field
IncompatibleErr(name) ==
    [kind |-> "raw", failure |-> name, operation |-> "",
     wrapped |-> ErrIncompatibleStdlibConfig]

\* the loop over the fields: the index of the first nonzero field that is
\* not supported, 0 when the loop ends without finding one
RECURSIVE FirstUnsupported(_, _)
FirstUnsupported(config, idx) ==
    IF idx > Len(ConfigFields) THEN 0
    ELSE IF IsZero(config, ConfigFields[idx]) THEN FirstUnsupported(config, idx + 1)
    ELSE IF ConfigFields[idx] \in supportedFields THEN FirstUnsupported(config, idx + 1)
    ELSE idx

\* the config NewClientConnStdlib hands to tls.Client
OurConfig(config) ==
    [EmptyConfig EXCEPT
       !.DynamicRecordSizingDisabled = config.DynamicRecordSizingDisabled,
       !.InsecureSkipVerify = config.InsecureSkipVerify,
       !.MaxVersion = config.MaxVersion,
       !.MinVersion = config.MinVersion,
       !.NextProtos = config.NextProtos,
       !.RootCAs = config.RootCAs,
       !.ServerName = config.ServerName]

NewClientConnStdlibSkipsLoop(conn, config) ==
    [tlsconn |-> Client(conn, OurConfig(config)), err |-> NilErr]

NewClientConnStdlib(conn, config) ==
    LET idx == FirstUnsupported(config, 1) IN
    IF idx # 0
    THEN [tlsconn |-> NilTLSConn, err |-> IncompatibleErr(ConfigFields[idx])]
    ELSE [tlsconn |-> Client(conn, OurConfig(config)), err |-> NilErr]

\* tlsHandshakerConfigurable.newConn with the NewConn factory not set, as
\* NewTLSHandshakerStdlib builds the handshaker
newConn(conn, config) == NewClientConnStdlib(conn, config)

\* the net.Conn the helpers are handed
HelperConn == "conn"

(***************************************************************************)
(* Addresses and net.SplitHostPort. An address is the sequence of its      *)
(* tokens, ":" being a token of its own.                                   *)
(***************************************************************************)
Addresses ==
    {<<"example.com", ":", "443">>, <<"example.com", ":", "853">>,
     <<"other.example", ":", "80">>, <<"example.com">>,
     <<"example", ":", "com", ":", "443">>}

\* the index of the last ":" of the address, 0 when there is none
RECURSIVE LastColon(_, _)
LastColon(addr, i) ==
    IF i = 0 THEN 0
    ELSE IF addr[i] = ":" THEN i
    ELSE LastColon(addr, i - 1)

\* the text of at most one token
Text(tokens) == IF Len(tokens) = 0 THEN "" ELSE tokens[1]

\* net.SplitHostPort for addresses without brackets
SplitHostPort(addr) ==
    LET i == LastColon(addr, Len(addr))
        host == SubSeq(addr, 1, i - 1)
        port == SubSeq(addr, i + 1, Len(addr))
    IN IF i = 0
       THEN [host |-> "", port |-> "", err |-> RawErr("missing port in address")]
       ELSE IF \E j \in 1..Len(host) : host[j] = ":"
       THEN [host |-> "", port |-> "", err |-> RawErr("too many colons in address")]
       ELSE [host |-> Text(host), port |-> Text(port), err |-> NilErr]

(***************************************************************************)
(* tlsDialer.config                                                        *)
(***************************************************************************)
tlsDialer_configDotOn443(dConfig, host, port) ==
    LET start == IF dConfig.ptr = "nil" THEN EmptyConfig ELSE dConfig.obj
        cloned == Clone(start)
        named == IF cloned.ServerName = ""
                 THEN [cloned EXCEPT !.ServerName = host] ELSE cloned
        alpn == IF Len(named.NextProtos) <= 0
                THEN CASE port = "443" -> [named EXCEPT !.NextProtos = <<"dot">>]
                       [] port = "853" -> [named EXCEPT !.NextProtos = <<"dot">>]
                       [] OTHER -> named
                ELSE named
    IN [Config |-> dConfig, config |-> alpn]

tlsDialer_configWithoutClone(dConfig, host, port) ==
    LET start == IF dConfig.ptr = "nil" THEN EmptyConfig ELSE dConfig.obj
        named == IF start.ServerName = ""
                 THEN [start EXCEPT !.ServerName = host] ELSE start
        alpn == IF Len(named.NextProtos) <= 0
                THEN CASE port = "443" -> [named EXCEPT !.NextProtos = <<"h2", "http/1.1">>]
                       [] port = "853" -> [named EXCEPT !.NextProtos = <<"dot">>]
                       [] OTHER -> named
                ELSE named
    IN [Config |-> IF dConfig.ptr = "nil" THEN dConfig ELSE ConfigPtr(alpn),
        config |-> alpn]

\* d.config(host, port): the dialer's Config field after the call and the
\* config the call returns
tlsDialer_config(dConfig, host, port) ==
    LET start == IF dConfig.ptr = "nil" THEN EmptyConfig ELSE dConfig.obj
        cloned == Clone(start)
        named == IF cloned.ServerName = ""
                 THEN [cloned EXCEPT !.ServerName = host] ELSE cloned
        alpn == IF Len(named.NextProtos) <= 0
                THEN CASE port = "443" -> [named EXCEPT !.NextProtos = <<"h2", "http/1.1">>]
                       [] port = "853" -> [named EXCEPT !.NextProtos = <<"dot">>]
                       [] OTHER -> named
                ELSE named
    IN [Config |-> dConfig, config |-> alpn]

(***************************************************************************)
(* State.                                                                  *)
(***************************************************************************)
VARIABLES
    now,         \* the wall clock read by time.Now and trace.TimeNow
    Timeout,     \* tlsHandshakerConfigurable.Timeout, in seconds
    Config,      \* tlsDialer.Config, a pointer that may be nil
    pc,          \* where each DialTLSContext call stands
    ctxTrace,    \* the Trace in each call's context: "recording" or "default"
    address,     \* the address each call was given
    hostport,    \* host and port as DialTLSContext split them
    conn,        \* the net.Conn each call dialed: status, deadline, deadline calls
    dialConfig,  \* the config object DialTLSContext hands to the handshaker
    hsConfig,    \* the config variable of tlsHandshakerConfigurable.Handshake
    tlsconn,     \* the tlsconn variable of tlsHandshakerConfigurable.Handshake
    hsErr,       \* the err variable of tlsHandshakerConfigurable.Handshake
    started,     \* the started variable of tlsHandshakerConfigurable.Handshake
    ret,         \* what each layer of each call returned
    trace,       \* the events the recording Trace received, in order
    log,         \* the lines the DebugLogger received, in order
    invoked,     \* the collaborators each call invoked, in order
    helper       \* a direct call of a configuration helper

vars ==
    <<now, Timeout, Config, pc, ctxTrace, address, hostport, conn, dialConfig,
      hsConfig, tlsconn, hsErr, started, ret, trace, log, invoked, helper>>

\* a connection nobody dialed yet
NoConn == [status |-> "none", deadline |-> 0, ops |-> <<>>]

\* a layer that did not return yet; conn is "nil", "conn" or "tlsconn"
NoRet == [returned |-> FALSE, conn |-> "nil", err |-> NilErr]

Ret(c, e) == [returned |-> TRUE, conn |-> c, err |-> e]

NoRets == [dialer |-> NoRet, configurable |-> NoRet, logger |-> NoRet, dialTLS |-> NoRet]

\* the config variable of Handshake: the caller's object or a clone of it
CallerConfig(config) == [ref |-> "caller", obj |-> config]

\* tls.ConnectionState{}
EmptyState == [HandshakeComplete |-> FALSE, ServerName |-> "", NegotiatedProtocol |-> ""]

\* conn.ConnectionState() of a TLSConn whose handshake completed
ConnectionState(tc) ==
    [HandshakeComplete |-> TRUE, ServerName |-> tc.config.ServerName,
     NegotiatedProtocol |-> Text(tc.config.NextProtos)]

\* the errors the Dialer returns, classified by the Dialer's own chain
DialErrors ==
    {[kind |-> "ErrWrapper", failure |-> "connection_refused",
      operation |-> "connect", wrapped |-> "ECONNREFUSED"],
     [kind |-> "ErrWrapper", failure |-> "generic_timeout_error",
      operation |-> "connect", wrapped |-> "i/o timeout"]}

\* the raw errors tlsconn.HandshakeContext returns
HandshakeErrors == {"context canceled", "i/o timeout", "EOF"}

\* the values of tlsHandshakerConfigurable.Timeout
Timeouts == {-1, 0, 1}

\* the values of tlsDialer.Config
BaseConfigs ==
    {NilConfig,
     ConfigPtr(EmptyConfig),
     ConfigPtr([EmptyConfig EXCEPT !.ServerName = "sni.example"]),
     ConfigPtr([EmptyConfig EXCEPT !.NextProtos = <<"h3">>]),
     ConfigPtr([EmptyConfig EXCEPT !.ServerName = "sni.example",
                                   !.NextProtos = <<"h3">>,
                                   !.RootCAs = "custom"]),
     ConfigPtr([EmptyConfig EXCEPT !.CipherSuites = <<TLS_AES_128_GCM_SHA256>>])}

\* no helper was called
HelperIdle ==
    [fn |-> "none", done |-> FALSE, config |-> EmptyConfig, version |-> "",
     value |-> 0, outConfig |-> EmptyConfig, outConn |-> NilTLSConn,
     outErr |-> NilErr, outString |-> <<>>]

\* the configs the helpers are called with: every field zero or set
HelperConfigs ==
    [GetCertificate : {"nil", "func"}, RootCAs : {"nil", "custom"},
     NextProtos : {<<>>, <<"h2">>}, ServerName : {"", "sni.example"},
     InsecureSkipVerify : BOOLEAN, CipherSuites : {<<>>, <<TLS_AES_128_GCM_SHA256>>},
     MinVersion : {0, VersionTLS12}, MaxVersion : {0, VersionTLS13},
     DynamicRecordSizingDisabled : BOOLEAN, Renegotiation : {0, 1}]

\* the version strings ConfigureTLSVersion is called with
VersionStrings ==
    {"TLSv1.3", "TLSv1.2", "TLSv1.1", "TLSv1.0", "TLSv1", "", "TLSv1.5", "tlsv1.3"}

\* the DialTLSContext calls of a run
Calls == {"call"}

\* no call has started
InitCalls ==
    /\ pc = [p \in Calls |-> "idle"]
    /\ ctxTrace = [p \in Calls |-> "default"]
    /\ address = [p \in Calls |-> <<>>]
    /\ hostport = [p \in Calls |-> [host |-> "", port |-> ""]]
    /\ conn = [p \in Calls |-> NoConn]
    /\ dialConfig = [p \in Calls |-> EmptyConfig]
    /\ hsConfig = [p \in Calls |-> CallerConfig(EmptyConfig)]
    /\ tlsconn = [p \in Calls |-> NilTLSConn]
    /\ hsErr = [p \in Calls |-> NilErr]
    /\ started = [p \in Calls |-> 0]
    /\ ret = [p \in Calls |-> NoRets]
    /\ trace = <<>>
    /\ log = <<>>
    /\ invoked = [p \in Calls |-> <<>>]

\* one DialTLSContext call through a dialer and a handshaker just built
Init ==
    /\ now = 1
    /\ Timeout \in Timeouts
    /\ Config \in BaseConfigs
    /\ InitCalls
    /\ helper = HelperIdle

(***************************************************************************)
(* tlsHandshakerConfigurable.Handshake, piece by piece.                    *)
(***************************************************************************)
EffectiveTimeoutKeepsZero(t) == IF t < 0 THEN DefaultTimeout ELSE t

\* timeout := h.Timeout; if timeout <= 0 { timeout = 10 * time.Second }
EffectiveTimeout(t) == IF t <= 0 THEN DefaultTimeout ELSE t

\* conn.SetDeadline(t): the zero time clears the deadline
SetDeadline(c, t) == [c EXCEPT !.deadline = t, !.ops = Append(@, t)]

RunDeferredForgotten(c) == c

\* defer conn.SetDeadline(time.Time{}), run when Handshake returns or panics
RunDeferred(c) == SetDeadline(c, 0)

\* h.provider.Get().DefaultCertPool()
DefaultCertPool == "mozilla"

RootCAsOrDefaultInPlace(config) ==
    IF config.RootCAs = "nil"
    THEN [caller |-> [config EXCEPT !.RootCAs = DefaultCertPool],
          config |-> CallerConfig([config EXCEPT !.RootCAs = DefaultCertPool])]
    ELSE [caller |-> config, config |-> CallerConfig(config)]

\* if config.RootCAs == nil { config = config.Clone(); config.RootCAs = ... }:
\* the caller's object after the statement and the config variable
RootCAsOrDefault(config) ==
    IF config.RootCAs = "nil"
    THEN [caller |-> config,
          config |-> [ref |-> "clone",
                      obj |-> [Clone(config) EXCEPT !.RootCAs = DefaultCertPool]]]
    ELSE [caller |-> config, config |-> CallerConfig(config)]

tlsMaybeConnectionStateAlways(tc, err) == ConnectionState(tc)

\* tlsMaybeConnectionState(conn, err)
tlsMaybeConnectionState(tc, err) ==
    IF err # NilErr THEN EmptyState ELSE ConnectionState(tc)

\* the arguments of trace.OnTLSHandshakeStart(started, remoteAddr, config);
\* the call stands for the remote address
StartEvent(p, startedAt, config) ==
    [kind |-> "tls-start", call |-> p, t |-> startedAt, started |-> startedAt,
     sni |-> config.ServerName, state |-> EmptyState, err |-> NilErr]

DoneEventSwapped(p, startedAt, config, state, err, finished) ==
    [kind |-> "tls-done", call |-> p, t |-> startedAt, started |-> finished,
     sni |-> config.ServerName, state |-> state, err |-> err]

\* the arguments of trace.OnTLSHandshakeDone(started, remoteAddr, config,
\* state, err, finished)
DoneEvent(p, startedAt, config, state, err, finished) ==
    [kind |-> "tls-done", call |-> p, t |-> finished, started |-> startedAt,
     sni |-> config.ServerName, state |-> state, err |-> err]

\* the sink of a recording trace takes one event at a time, whole
TraceAppend(tr, event) == Append(tr, event)

\* a call on ContextTraceOrDefault(ctx): the default trace drops the event
Record(tr, which, event) == IF which = "recording" THEN TraceAppend(tr, event) ELSE tr

\* if err != nil { return nil, err }; return tlsconn, nil
ConfigurableReturn(tc, err) ==
    IF err # NilErr THEN Ret("nil", err) ELSE Ret("tlsconn", NilErr)

(***************************************************************************)
(* tlsHandshakerLogger.Handshake                                           *)
(***************************************************************************)
\* "tls_handshake {sni=%s next=%+v}..."
StartLine(p, config) ==
    [line |-> "start", call |-> p, sni |-> config.ServerName,
     next |-> config.NextProtos, err |-> NilErr]

OutcomeLineAlwaysOk(p, config, r) ==
    [line |-> "ok", call |-> p, sni |-> config.ServerName,
     next |-> config.NextProtos, err |-> r.err]

\* the line logged once the wrapped handshaker returned r
OutcomeLine(p, config, r) ==
    [line |-> IF r.err # NilErr THEN "fail" ELSE "ok", call |-> p,
     sni |-> config.ServerName, next |-> config.NextProtos, err |-> r.err]

LoggerReturnRewraps(r) ==
    IF r.err # NilErr
    THEN Ret("nil", [r.err EXCEPT !.kind = "ErrWrapper",
                                  !.failure = "unknown_failure",
                                  !.operation = TLSHandshakeOperation])
    ELSE Ret(r.conn, NilErr)

\* if err != nil { ...; return nil, err }; ...; return tlsconn, nil
LoggerReturn(r) == IF r.err # NilErr THEN Ret("nil", r.err) ELSE Ret(r.conn, NilErr)

(***************************************************************************)
(* tlsDialer.DialTLSContext                                                *)
(***************************************************************************)
\* conn.Close()
Close(c) == [c EXCEPT !.status = "closed"]

ConnAfterHandshakeLeaks(c, r) == c

\* if err != nil { _ = conn.Close(); ... }: the connection after the
\* handshaker returned r
ConnAfterHandshake(c, r) == IF r.err # NilErr THEN Close(c) ELSE c

\* if err != nil { ...; return nil, err }; return tlsconn, nil
DialTLSReturn(r) == IF r.err # NilErr THEN Ret("nil", r.err) ELSE Ret(r.conn, NilErr)

\* how many times call p invoked the step named step
TimesInvoked(p, step) ==
    Cardinality({k \in 1..Len(invoked[p]) : invoked[p][k] = step})

(***************************************************************************)
(* The steps of one DialTLSContext call through a tlsDialer whose          *)
(* TLSHandshaker is the one NewTLSHandshakerStdlib builds:                 *)
(* tlsHandshakerLogger around tlsHandshakerConfigurable.                   *)
(***************************************************************************)
\* time passes while some call waits for the network: the other steps take
\* no time at the resolution of the clock
Tick ==
    /\ now < MaxTime
    /\ \E p \in Calls : pc[p] \in {"DialContext", "HandshakeContext"}
    /\ now' = now + 1
    /\ UNCHANGED <<Timeout, Config, pc, ctxTrace, address, hostport, conn,
                   dialConfig, hsConfig, tlsconn, hsErr, started, ret, trace,
                   log, invoked, helper>>

\* DialTLSContext is called with an address and a context; it splits the
\* address and returns the error of net.SplitHostPort if there is one
DialTLSContext(p) ==
    /\ pc[p] = "idle"
    /\ \E addr \in Addresses, tr \in {"recording", "default"} :
         LET s == SplitHostPort(addr) IN
         /\ address' = [address EXCEPT ![p] = addr]
         /\ ctxTrace' = [ctxTrace EXCEPT ![p] = tr]
         /\ hostport' = [hostport EXCEPT ![p] = [host |-> s.host, port |-> s.port]]
         /\ invoked' = [invoked EXCEPT ![p] = Append(@, "SplitHostPort")]
         /\ IF s.err # NilErr
            THEN /\ ret' = [ret EXCEPT ![p].dialTLS = Ret("nil", s.err)]
                 /\ pc' = [pc EXCEPT ![p] = "done"]
            ELSE /\ ret' = ret
                 /\ pc' = [pc EXCEPT ![p] = "DialContext"]
    /\ UNCHANGED <<now, Timeout, Config, conn, dialConfig, hsConfig, tlsconn,
                   hsErr, started, trace, log, helper>>

DialContextRetries(p) ==
    /\ pc[p] = "DialContext"
    /\ invoked' = [invoked EXCEPT ![p] = Append(@, "DialContext")]
    /\ \/ /\ TimesInvoked(p, "DialContext") = 0
          /\ UNCHANGED <<ret, pc, conn, dialConfig, Config>>
       \/ \E e \in DialErrors :
            /\ ret' = [ret EXCEPT ![p].dialer = Ret("nil", e),
                                  ![p].dialTLS = Ret("nil", e)]
            /\ pc' = [pc EXCEPT ![p] = "done"]
            /\ UNCHANGED <<conn, dialConfig, Config>>
       \/ LET c == tlsDialer_config(Config, hostport[p].host, hostport[p].port) IN
            /\ ret' = [ret EXCEPT ![p].dialer = Ret("conn", NilErr)]
            /\ conn' = [conn EXCEPT ![p] = [NoConn EXCEPT !.status = "open"]]
            /\ Config' = c.Config
            /\ dialConfig' = [dialConfig EXCEPT ![p] = c.config]
            /\ pc' = [pc EXCEPT ![p] = "logger"]
    /\ UNCHANGED <<now, Timeout, ctxTrace, address, hostport, hsConfig, tlsconn,
                   hsErr, started, trace, log, helper>>

\* d.Dialer.DialContext returns: an error ends the call, a connection is
\* followed by d.config(host, port)
DialContext(p) ==
    /\ pc[p] = "DialContext"
    /\ invoked' = [invoked EXCEPT ![p] = Append(@, "DialContext")]
    /\ \/ \E e \in DialErrors :
            /\ ret' = [ret EXCEPT ![p].dialer = Ret("nil", e),
                                  ![p].dialTLS = Ret("nil", e)]
            /\ pc' = [pc EXCEPT ![p] = "done"]
            /\ UNCHANGED <<conn, dialConfig, Config>>
       \/ LET c == tlsDialer_config(Config, hostport[p].host, hostport[p].port) IN
            /\ ret' = [ret EXCEPT ![p].dialer = Ret("conn", NilErr)]
            /\ conn' = [conn EXCEPT ![p] = [NoConn EXCEPT !.status = "open"]]
            /\ Config' = c.Config
            /\ dialConfig' = [dialConfig EXCEPT ![p] = c.config]
            /\ pc' = [pc EXCEPT ![p] = "logger"]
    /\ UNCHANGED <<now, Timeout, ctxTrace, address, hostport, hsConfig, tlsconn,
                   hsErr, started, trace, log, helper>>

\* tlsHandshakerLogger.Handshake logs the starting line and calls the
\* wrapped handshaker
LoggerStart(p) ==
    /\ pc[p] = "logger"
    /\ invoked' = [invoked EXCEPT ![p] = Append(@, "Handshake")]
    /\ log' = Append(log, StartLine(p, dialConfig[p]))
    /\ pc' = [pc EXCEPT ![p] = "configurable"]
    /\ UNCHANGED <<now, Timeout, Config, ctxTrace, address, hostport, conn,
                   dialConfig, hsConfig, tlsconn, hsErr, started, ret, trace,
                   helper>>

\* tlsHandshakerConfigurable.Handshake up to h.newConn: the deadline is set,
\* the root CAs are defaulted, the TLS connection is created; if that fails
\* Handshake returns and the deferred SetDeadline runs
HandshakeBegin(p) ==
    /\ pc[p] = "configurable"
    /\ invoked' = [invoked EXCEPT ![p] = Append(@, "TLSHandshaker.Handshake")]
    /\ LET c1 == SetDeadline(conn[p], now + EffectiveTimeout(Timeout))
           r == RootCAsOrDefault(dialConfig[p])
           n == newConn(p, r.config.obj)
       IN /\ dialConfig' = [dialConfig EXCEPT ![p] = r.caller]
          /\ hsConfig' = [hsConfig EXCEPT ![p] = r.config]
          /\ tlsconn' = [tlsconn EXCEPT ![p] = n.tlsconn]
          /\ IF n.err # NilErr
             THEN /\ conn' = [conn EXCEPT ![p] = RunDeferred(c1)]
                  /\ ret' = [ret EXCEPT ![p].configurable = Ret("nil", n.err)]
                  /\ pc' = [pc EXCEPT ![p] = "loggerDone"]
             ELSE /\ conn' = [conn EXCEPT ![p] = c1]
                  /\ ret' = ret
                  /\ pc' = [pc EXCEPT ![p] = "traceStart"]
    /\ UNCHANGED <<now, Timeout, Config, ctxTrace, address, hostport, hsErr,
                   started, trace, log, helper>>

\* started := trace.TimeNow(); trace.OnTLSHandshakeStart(...)
TraceStart(p) ==
    /\ pc[p] = "traceStart"
    /\ started' = [started EXCEPT ![p] = now]
    /\ trace' = Record(trace, ctxTrace[p], StartEvent(p, now, hsConfig[p].obj))
    /\ pc' = [pc EXCEPT ![p] = "HandshakeContext"]
    /\ UNCHANGED <<now, Timeout, Config, ctxTrace, address, hostport, conn,
                   dialConfig, hsConfig, tlsconn, hsErr, ret, log, invoked,
                   helper>>

\* tlsconn.HandshakeContext(ctx) returns and its error is classified. The
\* handshake completes only while the deadline has not passed, and the
\* connection times out only once it has
HandshakeContext(p) ==
    /\ pc[p] = "HandshakeContext"
    /\ \/ /\ now < conn[p].deadline
          /\ hsErr' = [hsErr EXCEPT ![p] =
                         MaybeNewErrWrapper(TLSHandshakeOperation, NilErr)]
       \/ \E e \in HandshakeErrors :
            /\ e = "i/o timeout" => now >= conn[p].deadline
            /\ hsErr' = [hsErr EXCEPT ![p] =
                           MaybeNewErrWrapper(TLSHandshakeOperation, RawErr(e))]
    /\ pc' = [pc EXCEPT ![p] = "traceDone"]
    /\ UNCHANGED <<now, Timeout, Config, ctxTrace, address, hostport, conn,
                   dialConfig, hsConfig, tlsconn, started, ret, trace, log,
                   invoked, helper>>

\* tlsconn.HandshakeContext(ctx) panics: the deferred SetDeadline runs and
\* the panic unwinds the logger and the dialer
HandshakePanic(p) ==
    /\ pc[p] = "HandshakeContext"
    /\ conn' = [conn EXCEPT ![p] = RunDeferred(conn[p])]
    /\ pc' = [pc EXCEPT ![p] = "panicked"]
    /\ UNCHANGED <<now, Timeout, Config, ctxTrace, address, hostport,
                   dialConfig, hsConfig, tlsconn, hsErr, started, ret, trace,
                   log, invoked, helper>>

TraceDoneOnlyOnSuccess(p) ==
    /\ pc[p] = "traceDone"
    /\ trace' = IF hsErr[p] # NilErr THEN trace
                ELSE Record(trace, ctxTrace[p],
                            DoneEvent(p, started[p], hsConfig[p].obj,
                                      tlsMaybeConnectionState(tlsconn[p], hsErr[p]),
                                      hsErr[p], now))
    /\ pc' = [pc EXCEPT ![p] = "configurableReturn"]
    /\ UNCHANGED <<now, Timeout, Config, ctxTrace, address, hostport, conn,
                   dialConfig, hsConfig, tlsconn, hsErr, started, ret, log,
                   invoked, helper>>

\* finished := trace.TimeNow(); state := tlsMaybeConnectionState(...);
\* trace.OnTLSHandshakeDone(...)
TraceDone(p) ==
    /\ pc[p] = "traceDone"
    /\ trace' = Record(trace, ctxTrace[p],
                       DoneEvent(p, started[p], hsConfig[p].obj,
                                 tlsMaybeConnectionState(tlsconn[p], hsErr[p]),
                                 hsErr[p], now))
    /\ pc' = [pc EXCEPT ![p] = "configurableReturn"]
    /\ UNCHANGED <<now, Timeout, Config, ctxTrace, address, hostport, conn,
                   dialConfig, hsConfig, tlsconn, hsErr, started, ret, log,
                   invoked, helper>>

HandshakeReturnClassifiesWhenTraced(p) ==
    /\ pc[p] = "configurableReturn"
    /\ ret' = [ret EXCEPT ![p].configurable =
                 ConfigurableReturn(tlsconn[p],
                                    IF ctxTrace[p] = "recording" \/ hsErr[p] = NilErr
                                    THEN hsErr[p] ELSE RawErr(hsErr[p].wrapped))]
    /\ conn' = [conn EXCEPT ![p] = RunDeferred(conn[p])]
    /\ pc' = [pc EXCEPT ![p] = "loggerDone"]
    /\ UNCHANGED <<now, Timeout, Config, ctxTrace, address, hostport,
                   dialConfig, hsConfig, tlsconn, hsErr, started, trace, log,
                   invoked, helper>>

\* tlsHandshakerConfigurable.Handshake returns and the deferred SetDeadline
\* runs
HandshakeReturn(p) ==
    /\ pc[p] = "configurableReturn"
    /\ ret' = [ret EXCEPT ![p].configurable = ConfigurableReturn(tlsconn[p], hsErr[p])]
    /\ conn' = [conn EXCEPT ![p] = RunDeferred(conn[p])]
    /\ pc' = [pc EXCEPT ![p] = "loggerDone"]
    /\ UNCHANGED <<now, Timeout, Config, ctxTrace, address, hostport,
                   dialConfig, hsConfig, tlsconn, hsErr, started, trace, log,
                   invoked, helper>>

\* tlsHandshakerLogger.Handshake logs the outcome and returns
LoggerDone(p) ==
    /\ pc[p] = "loggerDone"
    /\ log' = Append(log, OutcomeLine(p, dialConfig[p], ret[p].configurable))
    /\ ret' = [ret EXCEPT ![p].logger = LoggerReturn(ret[p].configurable)]
    /\ pc' = [pc EXCEPT ![p] = "dialReturn"]
    /\ UNCHANGED <<now, Timeout, Config, ctxTrace, address, hostport, conn,
                   dialConfig, hsConfig, tlsconn, hsErr, started, trace,
                   invoked, helper>>

\* DialTLSContext closes the connection if the handshake failed and returns
DialTLSContextReturn(p) ==
    /\ pc[p] = "dialReturn"
    /\ conn' = [conn EXCEPT ![p] = ConnAfterHandshake(conn[p], ret[p].logger)]
    /\ invoked' = [invoked EXCEPT ![p] =
                     IF ret[p].logger.err # NilErr THEN Append(@, "Close") ELSE @]
    /\ ret' = [ret EXCEPT ![p].dialTLS = DialTLSReturn(ret[p].logger)]
    /\ pc' = [pc EXCEPT ![p] = "done"]
    /\ UNCHANGED <<now, Timeout, Config, ctxTrace, address, hostport,
                   dialConfig, hsConfig, tlsconn, hsErr, started, trace, log,
                   helper>>

Next ==
    \/ Tick
    \/ \E p \in Calls :
         \/ DialTLSContext(p)
         \/ DialContext(p)
         \/ LoggerStart(p)
         \/ HandshakeBegin(p)
         \/ TraceStart(p)
         \/ HandshakeContext(p)
         \/ HandshakePanic(p)
         \/ TraceDone(p)
         \/ HandshakeReturn(p)
         \/ LoggerDone(p)
         \/ DialTLSContextReturn(p)

Spec == Init /\ [][Next]_vars

(***************************************************************************)
(* Two DialTLSContext calls through one tlsDialer, running concurrently    *)
(* with one trace and one logger, within one instant of the clock.         *)
(***************************************************************************)
ConcurrentCalls == {"call", "twin"}

InitConcurrent ==
    /\ now = 1
    /\ Timeout \in Timeouts
    /\ Config \in BaseConfigs
    /\ pc = [p \in ConcurrentCalls |-> "idle"]
    /\ ctxTrace = [p \in ConcurrentCalls |-> "default"]
    /\ address = [p \in ConcurrentCalls |-> <<>>]
    /\ hostport = [p \in ConcurrentCalls |-> [host |-> "", port |-> ""]]
    /\ conn = [p \in ConcurrentCalls |-> NoConn]
    /\ dialConfig = [p \in ConcurrentCalls |-> EmptyConfig]
    /\ hsConfig = [p \in ConcurrentCalls |-> CallerConfig(EmptyConfig)]
    /\ tlsconn = [p \in ConcurrentCalls |-> NilTLSConn]
    /\ hsErr = [p \in ConcurrentCalls |-> NilErr]
    /\ started = [p \in ConcurrentCalls |-> 0]
    /\ ret = [p \in ConcurrentCalls |-> NoRets]
    /\ trace = <<>>
    /\ log = <<>>
    /\ invoked = [p \in ConcurrentCalls |-> <<>>]
    /\ helper = HelperIdle

NextConcurrent ==
    \E p \in ConcurrentCalls :
      \/ DialTLSContext(p)
      \/ DialContext(p)
      \/ LoggerStart(p)
      \/ HandshakeBegin(p)
      \/ TraceStart(p)
      \/ HandshakeContext(p)
      \/ HandshakePanic(p)
      \/ TraceDone(p)
      \/ HandshakeReturn(p)
      \/ LoggerDone(p)
      \/ DialTLSContextReturn(p)

SpecConcurrent == InitConcurrent /\ [][NextConcurrent]_vars

(***************************************************************************)
(* The configuration helpers called on their own.                          *)
(***************************************************************************)
InitHelpers ==
    /\ now = 1
    /\ Timeout = 0
    /\ Config = NilConfig
    /\ InitCalls
    /\ \/ \E c \in HelperConfigs :
            \/ \E v \in VersionStrings :
                 helper = [HelperIdle EXCEPT !.fn = "ConfigureTLSVersion",
                                             !.config = c, !.outConfig = c, !.version = v]
            \/ helper = [HelperIdle EXCEPT !.fn = "NewClientConnStdlib",
                                           !.config = c, !.outConfig = c]
       \/ \E n \in 0..MaxUint16, f \in {"TLSVersionString", "TLSCipherSuiteString"} :
            helper = [HelperIdle EXCEPT !.fn = f, !.value = n]

\* ConfigureTLSVersion(config, version) on the caller's config object
CallConfigureTLSVersion ==
    /\ helper.fn = "ConfigureTLSVersion"
    /\ ~helper.done
    /\ LET r == ConfigureTLSVersion(helper.config, helper.version) IN
         helper' = [helper EXCEPT !.done = TRUE, !.outConfig = r.config, !.outErr = r.err]
    /\ UNCHANGED <<now, Timeout, Config, pc, ctxTrace, address, hostport, conn,
                   dialConfig, hsConfig, tlsconn, hsErr, started, ret, trace,
                   log, invoked>>

\* NewClientConnStdlib(conn, config)
CallNewClientConnStdlib ==
    /\ helper.fn = "NewClientConnStdlib"
    /\ ~helper.done
    /\ LET r == NewClientConnStdlib(HelperConn, helper.config) IN
         helper' = [helper EXCEPT !.done = TRUE, !.outConn = r.tlsconn, !.outErr = r.err]
    /\ UNCHANGED <<now, Timeout, Config, pc, ctxTrace, address, hostport, conn,
                   dialConfig, hsConfig, tlsconn, hsErr, started, ret, trace,
                   log, invoked>>

\* TLSVersionString(value)
CallTLSVersionString ==
    /\ helper.fn = "TLSVersionString"
    /\ ~helper.done
    /\ helper' = [helper EXCEPT !.done = TRUE,
                                !.outString = TLSVersionString(helper.value)]
    /\ UNCHANGED <<now, Timeout, Config, pc, ctxTrace, address, hostport, conn,
                   dialConfig, hsConfig, tlsconn, hsErr, started, ret, trace,
                   log, invoked>>

\* TLSCipherSuiteString(value)
CallTLSCipherSuiteString ==
    /\ helper.fn = "TLSCipherSuiteString"
    /\ ~helper.done
    /\ helper' = [helper EXCEPT !.done = TRUE,
                                !.outString = TLSCipherSuiteString(helper.value)]
    /\ UNCHANGED <<now, Timeout, Config, pc, ctxTrace, address, hostport, conn,
                   dialConfig, hsConfig, tlsconn, hsErr, started, ret, trace,
                   log, invoked>>

NextHelpers ==
    \/ CallConfigureTLSVersion
    \/ CallNewClientConnStdlib
    \/ CallTLSVersionString
    \/ CallTLSCipherSuiteString

SpecHelpers == InitHelpers /\ [][NextHelpers]_vars

(***************************************************************************)
(* Properties.                                                             *)
(***************************************************************************)
\* the positions of the events of one kind that call p put on the trace
EventsOf(p, kind) ==
    {i \in 1..Len(trace) : trace[i].call = p /\ trace[i].kind = kind}

\* C1: when DialTLSContext returns an error, no connection it opened is
\* still open; if the dial had succeeded, the connection is closed.
C1_FailedDialLeavesNoOpenConn ==
    \A p \in Calls :
      (ret[p].dialTLS.returned /\ ret[p].dialTLS.err # NilErr) =>
         /\ conn[p].status # "open"
         /\ ret[p].dialer.conn = "conn" => conn[p].status = "closed"

\* C1 witness: a call whose dial succeeded and whose handshake was canceled
\* has returned the error, with the connection closed
C1_Witness ==
    \E p \in Calls :
      /\ ret[p].dialTLS.returned
      /\ ret[p].dialer.conn = "conn"
      /\ ret[p].dialTLS.err.wrapped = "context canceled"
      /\ conn[p].status = "closed"

\* C2: once Handshake has returned or panicked, the deadline calls on the
\* connection are a set followed by the clearing one, which is the last, and
\* the connection has no deadline.
C2_DeadlineClearedOnEveryPath ==
    \A p \in Calls :
      (ret[p].configurable.returned \/ pc[p] = "panicked") =>
         /\ Len(conn[p].ops) = 2
         /\ conn[p].ops[1] > 0
         /\ conn[p].ops[2] = 0
         /\ conn[p].deadline = 0

\* C2 witness: the handshake panicked and the deadline is cleared
C2_Witness ==
    \E p \in Calls :
      /\ pc[p] = "panicked"
      /\ conn[p].ops = <<now + DefaultTimeout, 0>>
      /\ conn[p].deadline = 0

\* C3: no step of Handshake changes the caller's config object; when its
\* RootCAs is nil the handshake runs on a clone that carries the default
\* pool, and otherwise it runs with the caller's pool.
C3_CallerConfigNeverMutated ==
    [][\A p \in Calls :
         /\ pc[p] \notin {"idle", "DialContext"} => dialConfig'[p] = dialConfig[p]
         /\ (pc[p] = "configurable" /\ pc'[p] # "configurable") =>
              /\ dialConfig[p].RootCAs = "nil" =>
                   /\ hsConfig'[p].ref = "clone"
                   /\ hsConfig'[p].obj.RootCAs = DefaultCertPool
                   /\ tlsconn'[p].ptr = "set" =>
                        tlsconn'[p].config.RootCAs = DefaultCertPool
              /\ dialConfig[p].RootCAs # "nil" =>
                   /\ hsConfig'[p].obj.RootCAs = dialConfig[p].RootCAs
                   /\ tlsconn'[p].ptr = "set" =>
                        tlsconn'[p].config.RootCAs = dialConfig[p].RootCAs]_vars

\* C3 witness: Handshake returned after running on a clone with the default
\* pool, and the caller's RootCAs is still nil
C3_Witness ==
    \E p \in Calls :
      /\ ret[p].configurable.returned
      /\ hsConfig[p].ref = "clone"
      /\ tlsconn[p].config.RootCAs = DefaultCertPool
      /\ dialConfig[p].RootCAs = "nil"

\* C4: with a recording Trace in the context, the start event is on the
\* trace and the done event is not while the handshake runs; after a
\* successful Handshake the trace holds exactly one start and one done event
\* of the call, start first, the done event with a nil error and a finish
\* time not earlier than the start time.
C4_OneStartOneDoneOnSuccess ==
    \A p \in Calls :
      ctxTrace[p] = "recording" =>
        /\ pc[p] \in {"HandshakeContext", "traceDone"} =>
             /\ Cardinality(EventsOf(p, "tls-start")) = 1
             /\ Cardinality(EventsOf(p, "tls-done")) = 0
        /\ (ret[p].configurable.returned /\ ret[p].configurable.err = NilErr) =>
             /\ Cardinality(EventsOf(p, "tls-start")) = 1
             /\ Cardinality(EventsOf(p, "tls-done")) = 1
             /\ \A i \in EventsOf(p, "tls-start"), j \in EventsOf(p, "tls-done") :
                  /\ i < j
                  /\ trace[j].err = NilErr
                  /\ trace[j].started = trace[i].t
                  /\ trace[j].t >= trace[j].started

\* C4 witness: a successful Handshake that took time left a start and a
\* done event on the trace
C4_Witness ==
    \E p \in Calls :
      /\ ctxTrace[p] = "recording"
      /\ ret[p].configurable.returned
      /\ ret[p].configurable.conn = "tlsconn"
      /\ Len(trace) = 2
      /\ trace[1].kind = "tls-start"
      /\ trace[2].kind = "tls-done"
      /\ trace[2].t > trace[2].started

\* C5: once Handshake has returned after running the handshake, a recording
\* trace holds exactly one done event of the call and its error is the
\* error Handshake returned; if that error is not nil the done event has the
\* empty connection state and Handshake returned no connection.
C5_DoneEventCarriesReturnedError ==
    \A p \in Calls :
      (ret[p].configurable.returned /\ tlsconn[p].ptr = "set") =>
        /\ ret[p].configurable.err # NilErr => ret[p].configurable.conn = "nil"
        /\ ctxTrace[p] = "recording" =>
             /\ Cardinality(EventsOf(p, "tls-done")) = 1
             /\ \A j \in EventsOf(p, "tls-done") :
                  /\ trace[j].err = ret[p].configurable.err
                  /\ trace[j].err # NilErr => trace[j].state = EmptyState
                  /\ trace[j].err = NilErr => trace[j].state.HandshakeComplete

\* C5 witness: a handshake that hit EOF returned the classified error and
\* the done event carries it with the empty state
C5_Witness ==
    \E p \in Calls :
      /\ ret[p].configurable.returned
      /\ ret[p].configurable.conn = "nil"
      /\ ret[p].configurable.err.failure = "eof_error"
      /\ \E j \in EventsOf(p, "tls-done") :
           trace[j].err = ret[p].configurable.err /\ trace[j].state = EmptyState

\* C6: every failure the logger logs and every error a done event carries
\* is a Classified Error tagged tls_handshake.
C6_LoggedFailuresAreClassified ==
    /\ \A i \in 1..Len(log) :
         log[i].line = "fail" =>
           IsClassified(log[i].err) /\ log[i].err.operation = TLSHandshakeOperation
    /\ \A j \in 1..Len(trace) :
         (trace[j].kind = "tls-done" /\ trace[j].err # NilErr) =>
           IsClassified(trace[j].err) /\ trace[j].err.operation = TLSHandshakeOperation

\* C7: the logger returns the error of the handshaker it wraps, and
\* DialTLSContext returns the error of its Dialer or else of its
\* TLSHandshaker, both unchanged.
C7_OuterLayersPassErrorsThrough ==
    \A p \in Calls :
      /\ ret[p].logger.returned => ret[p].logger.err = ret[p].configurable.err
      /\ (ret[p].dialTLS.returned /\ ret[p].dialer.returned) =>
           ret[p].dialTLS.err =
             IF ret[p].dialer.err # NilErr THEN ret[p].dialer.err ELSE ret[p].logger.err

\* C7 witness: DialTLSContext returned the timeout the handshaker classified
C7_Witness ==
    \E p \in Calls :
      /\ ret[p].dialTLS.returned
      /\ ret[p].logger.returned
      /\ ret[p].dialTLS.err =
           [kind |-> "ErrWrapper", failure |-> "generic_timeout_error",
            operation |-> "tls_handshake", wrapped |-> "i/o timeout"]

\* C8: the config handed to the handshaker has the base ServerName, or the
\* dialed host if that is empty, and the base ALPN list, or if that is empty
\* h2 and http/1.1 for port 443, dot for port 853 and none for other ports.
C8_PerConnectionConfig ==
    \A p \in Calls :
      ret[p].dialer.conn = "conn" =>
        LET base == IF Config.ptr = "nil" THEN EmptyConfig ELSE Config.obj
            host == address[p][1]
            port == address[p][Len(address[p])]
        IN /\ dialConfig[p].ServerName =
                IF base.ServerName = "" THEN host ELSE base.ServerName
           /\ dialConfig[p].NextProtos =
                IF Len(base.NextProtos) > 0 THEN base.NextProtos
                ELSE IF port = "443" THEN <<"h2", "http/1.1">>
                ELSE IF port = "853" THEN <<"dot">>
                ELSE <<>>
           /\ \A i \in 1..Len(log) :
                (log[i].call = p /\ log[i].line = "start") =>
                  /\ log[i].sni = dialConfig[p].ServerName
                  /\ log[i].next = dialConfig[p].NextProtos

\* C8 witness: a dial of port 443 with a nil base config reached the
\* handshaker with the host as server name and h2, http/1.1 as ALPN
C8_Witness ==
    \E p \in Calls :
      /\ Config.ptr = "nil"
      /\ ret[p].logger.returned
      /\ address[p] = <<"example.com", ":", "443">>
      /\ log[1].sni = "example.com"
      /\ tlsconn[p].config.NextProtos = <<"h2", "http/1.1">>

\* C9: NewClientConnStdlib fails with ErrIncompatibleStdlibConfig and no
\* connection when a field outside the recognized set is nonzero, and
\* otherwise succeeds with a config that has the caller's value in every
\* recognized field.
C9_StdlibConfigTranslation ==
    (helper.fn = "NewClientConnStdlib" /\ helper.done) =>
      LET c == helper.config
          unsupported ==
            \/ c.GetCertificate # "nil"
            \/ c.CipherSuites # <<>>
            \/ c.Renegotiation # 0
      IN /\ unsupported =>
              /\ helper.outErr.wrapped = ErrIncompatibleStdlibConfig
              /\ helper.outConn.ptr = "nil"
         /\ ~unsupported =>
              /\ helper.outErr = NilErr
              /\ helper.outConn.ptr = "set"
              /\ \A f \in {"DynamicRecordSizingDisabled", "InsecureSkipVerify",
                           "MaxVersion", "MinVersion", "NextProtos", "RootCAs",
                           "ServerName"} :
                   helper.outConn.config[f] = c[f]

\* C9 witness: a config with every recognized field set and a certificate
\* callback was refused
C9_Witness ==
    /\ helper.fn = "NewClientConnStdlib"
    /\ helper.done
    /\ helper.config.GetCertificate = "func"
    /\ helper.config.CipherSuites = <<>>
    /\ helper.config.Renegotiation = 0
    /\ helper.config.ServerName = "sni.example"
    /\ helper.config.InsecureSkipVerify
    /\ helper.config.MinVersion = VersionTLS12
    /\ helper.outErr = IncompatibleErr("GetCertificate")

\* C10: ConfigureTLSVersion sets MinVersion and MaxVersion to the named
\* version and returns nil for TLSv1.3, TLSv1.2, TLSv1.1, TLSv1.0 and TLSv1;
\* returns nil and changes nothing for the empty string; returns
\* ErrInvalidTLSVersion and changes nothing for any other string; no other
\* field ever changes.
C10_ConfigureTLSVersion ==
    (helper.fn = "ConfigureTLSVersion" /\ helper.done) =>
      LET v == helper.version
          named == [s \in {"TLSv1.3", "TLSv1.2", "TLSv1.1", "TLSv1.0", "TLSv1"} |->
                      CASE s = "TLSv1.3" -> VersionTLS13
                        [] s = "TLSv1.2" -> VersionTLS12
                        [] s = "TLSv1.1" -> VersionTLS11
                        [] OTHER -> VersionTLS10]
      IN /\ v \in DOMAIN named =>
              /\ helper.outErr = NilErr
              /\ helper.outConfig.MinVersion = named[v]
              /\ helper.outConfig.MaxVersion = named[v]
         /\ v = "" => helper.outErr = NilErr /\ helper.outConfig = helper.config
         /\ (v # "" /\ v \notin DOMAIN named) =>
              helper.outErr = ErrInvalidTLSVersion /\ helper.outConfig = helper.config
         /\ \A f \in DOMAIN helper.config \ {"MinVersion", "MaxVersion"} :
              helper.outConfig[f] = helper.config[f]

\* C10 witness: TLSv1 turned a config bounded to other versions into one
\* bounded to TLS 1.0 on both sides
C10_Witness ==
    /\ helper.fn = "ConfigureTLSVersion"
    /\ helper.done
    /\ helper.version = "TLSv1"
    /\ helper.config.MinVersion = VersionTLS12
    /\ helper.config.MaxVersion = VersionTLS13
    /\ helper.outConfig.MinVersion = VersionTLS10
    /\ helper.outConfig.MaxVersion = VersionTLS10

\* the number a sequence of decimal digits writes
RECURSIVE ParseDecimal(_)
ParseDecimal(ds) ==
    IF Len(ds) = 0 THEN 0
    ELSE 10 * ParseDecimal(SubSeq(ds, 1, Len(ds) - 1))
         + ((CHOOSE k \in 1..10 : Digits[k] = ds[Len(ds)]) - 1)

\* a string is the given prefix followed by the shortest decimal writing of n
IsPlaceholder(str, prefix, n) ==
    /\ Len(str) >= 2
    /\ str[1] = prefix
    /\ \A k \in 2..Len(str) : \E d \in 1..10 : Digits[d] = str[k]
    /\ Len(str) > 2 => str[2] # "0"
    /\ ParseDecimal(Tail(str)) = n

\* C11: for every 16-bit value TLSVersionString and TLSCipherSuiteString
\* return a string: the empty one for zero, the documented name for a known
\* constant, and otherwise the UNKNOWN prefix followed by the decimal
\* writing of the value, from which the value can be read back, so that two
\* unknown values never share a placeholder.
C11_NameLookupsAreTotal ==
    (helper.fn \in {"TLSVersionString", "TLSCipherSuiteString"} /\ helper.done) =>
      LET v == helper.value
          out == helper.outString
      IN /\ v = 0 => out = <<>>
         /\ helper.fn = "TLSVersionString" =>
              /\ v = 769 => out = <<"TLSv1">>
              /\ v = 770 => out = <<"TLSv1.1">>
              /\ v = 771 => out = <<"TLSv1.2">>
              /\ v = 772 => out = <<"TLSv1.3">>
              /\ v \notin {0, 769, 770, 771, 772} =>
                   IsPlaceholder(out, "TLS_VERSION_UNKNOWN_", v)
         /\ helper.fn = "TLSCipherSuiteString" =>
              /\ v = 4865 => out = <<"TLS_AES_128_GCM_SHA256">>
              /\ v = 49199 => out = <<"TLS_ECDHE_RSA_WITH_AES_128_GCM_SHA256">>
              /\ v = 5 => out = <<"TLS_RSA_WITH_RC4_128_SHA">>
              /\ (v # 0 /\ \E e \in tlsCipherSuiteNames : e[1] = v) =>
                   /\ Len(out) = 1
                   /\ <<v, out[1]>> \in tlsCipherSuiteNames
              /\ (v # 0 /\ \A e \in tlsCipherSuiteNames : e[1] # v) =>
                   IsPlaceholder(out, "TLS_CIPHER_SUITE_UNKNOWN_", v)

\* C11 witness: TLSVersionString(0xFFFF) gave TLS_VERSION_UNKNOWN_65535
C11_Witness ==
    /\ helper.fn = "TLSVersionString"
    /\ helper.done
    /\ helper.value = MaxUint16
    /\ helper.outString = <<"TLS_VERSION_UNKNOWN_", "6", "5", "5", "3", "5">>

\* C12: of two Handshake calls with the same connection state, config and
\* handshake outcome, one with a recording trace in its context and one with
\* the default trace, both return the same results at every layer, perform
\* the same SetDeadline operations and leave the caller's config the same.
C12_TracingIsTransparent ==
    LET a == "call"
        b == "twin"
    IN (/\ DOMAIN pc = ConcurrentCalls
        /\ pc[a] \in {"done", "panicked"}
        /\ pc[b] = pc[a]
        /\ ctxTrace[a] = "recording"
        /\ ctxTrace[b] = "default"
        /\ address[a] = address[b]
        /\ ret[a].dialer = ret[b].dialer
        /\ hsErr[a].wrapped = hsErr[b].wrapped)
       => /\ ret[a] = ret[b]
          /\ conn[a] = conn[b]
          /\ dialConfig[a] = dialConfig[b]
          /\ hsConfig[a] = hsConfig[b]

\* C12 witness: a traced and an untraced call to the same address both failed
\* their handshake with EOF; only the traced one left events
C12_Witness ==
    /\ DOMAIN pc = ConcurrentCalls
    /\ pc["call"] = "done"
    /\ pc["twin"] = "done"
    /\ ctxTrace["call"] = "recording"
    /\ ctxTrace["twin"] = "default"
    /\ address["call"] = address["twin"]
    /\ hsErr["call"].wrapped = "EOF"
    /\ hsErr["twin"].wrapped = "EOF"
    /\ Len(trace) = 2
    /\ ret["call"].configurable = ret["twin"].configurable
    /\ ret["call"].configurable.err.kind = "ErrWrapper"
    /\ conn["call"].ops = conn["twin"].ops
    /\ Len(conn["call"].ops) = 2

\* C13: the first SetDeadline of a Handshake call, made before the TLS
\* connection is created and the handshake starts, sets the current time plus
\* the configured Timeout when that is strictly positive and the current time
\* plus 10 seconds when it is zero or negative; that deadline is the one in
\* force while the handshake runs.
C13_DeadlineIsNowPlusEffectiveTimeout ==
    [][\A p \in DOMAIN pc :
         /\ (pc[p] = "configurable" /\ pc'[p] # "configurable") =>
              /\ Len(conn'[p].ops) >= 1
              /\ conn'[p].ops[1] = now + (IF Timeout > 0 THEN Timeout ELSE 10)
              /\ pc'[p] = "traceStart" => conn'[p].deadline = conn'[p].ops[1]
         /\ pc'[p] \in {"traceStart", "HandshakeContext"} =>
              /\ conn'[p].deadline = conn'[p].ops[1]
              /\ conn'[p].deadline > 0
         /\ (pc[p] # "configurable" /\ Len(conn[p].ops) >= 1) =>
              conn'[p].ops[1] = conn[p].ops[1]]_vars

\* C13 witness: with a negative Timeout the handshake is about to start under
\* a deadline ten seconds ahead
C13_Witness ==
    \E p \in DOMAIN pc :
      /\ Timeout < 0
      /\ pc[p] = "traceStart"
      /\ conn[p].deadline = now + 10
      /\ conn[p].ops = <<now + 10>>

\* the positions in the trace of the events of one kind of call p
PositionsOf(p, kind) ==
    {i \in 1..Len(trace) : trace[i].call = p /\ trace[i].kind = kind}

\* C14: while two Handshake calls run concurrently on one recording trace, in
\* every interleaving a call whose handshake was started has exactly one start
\* event, a call whose handshake returned has exactly one start and exactly
\* one done event with its start before its done, a call that did not reach
\* the handshake has no event, and once both calls have returned the trace
\* holds as many start events as done events.
C14_ConcurrentCallsKeepTheirEvents ==
    (DOMAIN pc = ConcurrentCalls) =>
      /\ \A p \in ConcurrentCalls :
           ctxTrace[p] = "recording" =>
             LET starts == PositionsOf(p, "tls-start")
                 dones == PositionsOf(p, "tls-done")
             IN /\ pc[p] \in {"HandshakeContext", "traceDone"} =>
                     Cardinality(starts) = 1 /\ dones = {}
                /\ ret[p].configurable.returned =>
                     IF tlsconn[p].ptr = "nil"
                     THEN starts = {} /\ dones = {}
                     ELSE /\ Cardinality(starts) = 1
                          /\ Cardinality(dones) = 1
                          /\ \A i \in starts, j \in dones : i < j
                /\ ~("Handshake" \in {invoked[p][k] : k \in 1..Len(invoked[p])}) =>
                     starts = {} /\ dones = {}
      /\ (\A p \in ConcurrentCalls : pc[p] = "done") =>
           Cardinality({i \in 1..Len(trace) : trace[i].kind = "tls-start"})
             = Cardinality({i \in 1..Len(trace) : trace[i].kind = "tls-done"})
      /\ \A i \in 1..Len(trace) : ctxTrace[trace[i].call] = "recording"

\* C14 witness: two traced calls returned and their events interleave, the
\* second call's start lying between the first call's start and done
C14_Witness ==
    /\ DOMAIN pc = ConcurrentCalls
    /\ \A p \in ConcurrentCalls : pc[p] = "done" /\ ctxTrace[p] = "recording"
    /\ Len(trace) = 4
    /\ trace[1].kind = "tls-start"
    /\ trace[2].kind = "tls-start"
    /\ trace[1].call # trace[2].call
    /\ trace[3].call = trace[2].call
    /\ trace[4].call = trace[1].call
    /\ trace[4].err # NilErr
    /\ trace[3].err = NilErr

\* the log lines of call p, in the order they were written
LinesOf(p) == SelectSeq(log, LAMBDA l : l.call = p)

\* C15: a tlsHandshakerLogger.Handshake call writes its starting line before
\* it invokes the wrapped handshaker, invokes it exactly once with the
\* connection and config it was given, and once the wrapped handshaker has
\* returned writes exactly one more line: the failure line carrying the
\* returned error if there is one and the ok line otherwise; a returned call
\* has written exactly these two lines.
C15_LoggerWritesStartThenOneOutcome ==
    \A p \in Calls :
      LET lines == LinesOf(p)
          inner == TimesInvoked(p, "TLSHandshaker.Handshake")
          r == ret[p].configurable
      IN /\ pc[p] \in {"idle", "DialContext", "logger"} => lines = <<>> /\ inner = 0
         /\ pc[p] = "configurable" =>
              /\ lines = <<StartLine(p, dialConfig[p])>>
              /\ inner = 0
         /\ pc[p] \in {"traceStart", "HandshakeContext", "traceDone",
                       "configurableReturn", "loggerDone"} =>
              /\ Len(lines) = 1
              /\ lines[1].line = "start"
              /\ inner = 1
              /\ tlsconn[p].ptr # "nil" => tlsconn[p].conn = p
              /\ hsConfig[p].ref = "caller" => hsConfig[p].obj = dialConfig[p]
         /\ ret[p].logger.returned =>
              /\ r.returned
              /\ inner = 1
              /\ Len(lines) = 2
              /\ lines[1].line = "start"
              /\ lines[1].sni = dialConfig[p].ServerName
              /\ lines[1].next = dialConfig[p].NextProtos
              /\ lines[2].line = (IF r.err # NilErr THEN "fail" ELSE "ok")
              /\ lines[2].err = r.err
              /\ lines[2].sni = lines[1].sni
              /\ lines[2].next = lines[1].next

\* C15 witness: the logger returned after a handshake that failed with EOF and
\* wrote the starting line and the failure line with the classified error
C15_Witness ==
    \E p \in Calls :
      /\ ret[p].logger.returned
      /\ ret[p].configurable.err.wrapped = "EOF"
      /\ Len(LinesOf(p)) = 2
      /\ LinesOf(p)[2].line = "fail"
      /\ LinesOf(p)[2].err = ret[p].configurable.err
      /\ TimesInvoked(p, "TLSHandshaker.Handshake") = 1

\* C16: one DialTLSContext call splits the address once, then invokes the
\* dialer at most once and only if the split succeeded, then invokes the
\* handshaker at most once and only if the dial returned a connection; a step
\* that fails ends the call with that step's error and no connection, and no
\* later step is invoked.
C16_DialStepsInOrderWithoutRetry ==
    \A p \in Calls :
      LET steps == SelectSeq(invoked[p],
                             LAMBDA x : x \in {"SplitHostPort", "DialContext", "Handshake"})
          split == SplitHostPort(address[p])
          r == ret[p].dialTLS
      IN /\ \E n \in 0..3 : steps = SubSeq(<<"SplitHostPort", "DialContext", "Handshake">>, 1, n)
         /\ TimesInvoked(p, "DialContext") = 1 => split.err = NilErr
         /\ TimesInvoked(p, "Handshake") = 1 =>
              ret[p].dialer.returned /\ ret[p].dialer.err = NilErr
         /\ (pc[p] # "idle" /\ split.err # NilErr) =>
              /\ pc[p] = "done"
              /\ steps = <<"SplitHostPort">>
              /\ r = Ret("nil", split.err)
         /\ (ret[p].dialer.returned /\ ret[p].dialer.err # NilErr) =>
              /\ pc[p] = "done"
              /\ steps = <<"SplitHostPort", "DialContext">>
              /\ r = Ret("nil", ret[p].dialer.err)
         /\ (ret[p].logger.returned /\ ret[p].logger.err # NilErr) =>
              /\ pc[p] \in {"dialReturn", "done"}
              /\ steps = <<"SplitHostPort", "DialContext", "Handshake">>
              /\ pc[p] = "done" => r = Ret("nil", ret[p].logger.err)
         /\ pc[p] = "done" =>
              /\ r.returned
              /\ r.err # NilErr <=> r.conn = "nil"
              /\ r.err = NilErr => steps = <<"SplitHostPort", "DialContext", "Handshake">>

\* C16 witness: the dial failed, so the call ended with the dialer's error
\* after two steps and the handshaker was never invoked
C16_Witness ==
    \E p \in Calls :
      /\ pc[p] = "done"
      /\ invoked[p] = <<"SplitHostPort", "DialContext">>
      /\ ret[p].dialer.err # NilErr
      /\ ret[p].dialTLS = Ret("nil", ret[p].dialer.err)
      /\ ~ret[p].logger.returned

\* the config a dial of addr must hand to the handshaker under the base config
ConfigFor(base, addr) ==
    LET b == IF base.ptr = "nil" THEN EmptyConfig ELSE base.obj
        host == addr[1]
        port == addr[Len(addr)]
    IN [b EXCEPT !.ServerName = IF b.ServerName = "" THEN host ELSE b.ServerName,
                 !.NextProtos = IF Len(b.NextProtos) > 0 THEN b.NextProtos
                                ELSE IF port = "443" THEN <<"h2", "http/1.1">>
                                ELSE IF port = "853" THEN <<"dot">>
                                ELSE <<>>]

\* C17: no step of any DialTLSContext call, in any order or interleaving of
\* two calls, changes the dialer's base Config, nil or not; the config a call
\* hands to the handshaker is the base config with ServerName and ALPN
\* defaulted from that call's own address, whatever the other call dialed.
C17_BaseConfigNeverModified ==
    [][/\ Config' = Config
       /\ \A p \in DOMAIN pc :
            (pc[p] = "DialContext" /\ pc'[p] = "logger") =>
              dialConfig'[p] = ConfigFor(Config, address[p])
       /\ \A p \in DOMAIN pc :
            pc[p] = "logger" => dialConfig[p] = ConfigFor(Config, address[p])]_vars

\* C17 witness: under a base config that names no server and no protocol two
\* calls dialed different hosts and ports, and each has its own host and its
\* own port's ALPN while the base is as it was
C17_Witness ==
    /\ DOMAIN pc = ConcurrentCalls
    /\ Config = ConfigPtr(EmptyConfig)
    /\ address["call"] = <<"example.com", ":", "443">>
    /\ address["twin"] = <<"other.example", ":", "80">>
    /\ pc["call"] = "done"
    /\ pc["twin"] = "logger"
    /\ dialConfig["twin"].ServerName = "other.example"
    /\ dialConfig["twin"].NextProtos = <<>>
    /\ tlsconn["call"].config.ServerName = "example.com"
    /\ tlsconn["call"].config.NextProtos = <<"h2", "http/1.1">>

====
